---- MODULE Spec2Model ----
(***************************************************************************)
(* Model of .github/version_check.py: the semantic-version bump validator  *)
(* (is_valid_semver, validate_semver_bump) and the __main__ wrapper that   *)
(* strips a "v" prefix from the two arguments, validates them and appends  *)
(* "bump_type=<kind>" to the file named by GITHUB_OUTPUT.                  *)
(*                                                                         *)
(* A Python str is a sequence of one-character strings.  Python indices    *)
(* are 0-based, the sequences here are 1-based: index i of the source is   *)
(* index i+1 here.                                                         *)
(***************************************************************************)
EXTENDS Integers, Sequences, FiniteSets, TLC

VARIABLES argv, pc, previous_version, next_version, bump_type, getenv,
          github_output, exit

vars == <<argv, pc, previous_version, next_version, bump_type, getenv,
          github_output, exit>>

\* Version components of the generated previous versions range over
\* 0..MaxNum, those of the generated next versions over 0..MaxNum+1.
MaxNum == 1

(***************************************************************************)
(* Characters, digits, str.split, int                                      *)
(***************************************************************************)
DigitChars == <<"0", "1", "2", "3", "4", "5", "6", "7", "8", "9">>

\* the regex class \d (restricted to the ASCII digits)
IsDigit(c) == \E i \in 1..Len(DigitChars) : DigitChars[i] = c

DigitValue(c) == (CHOOSE i \in 1..Len(DigitChars) : DigitChars[i] = c) - 1

\* characters int() strips from both ends of its argument
Whitespace == {" ", "\n", "\t"}

RECURSIVE lstrip(_)
lstrip(s) ==
    IF s # <<>> /\ Head(s) \in Whitespace THEN lstrip(Tail(s)) ELSE s

RECURSIVE rstrip(_)
rstrip(s) ==
    IF s # <<>> /\ s[Len(s)] \in Whitespace
    THEN rstrip(SubSeq(s, 1, Len(s) - 1))
    ELSE s

RECURSIVE DecimalValue(_)
DecimalValue(s) ==
    IF s = <<>> THEN 0
    ELSE DecimalValue(SubSeq(s, 1, Len(s) - 1)) * 10 + DigitValue(s[Len(s)])

\* int(s) for a str s of decimal digits with optional surrounding whitespace
int(s) == DecimalValue(rstrip(lstrip(s)))

\* s.split(sep) for a one-character separator
RECURSIVE split(_, _)
split(s, sep) ==
    IF \E i \in 1..Len(s) : s[i] = sep
    THEN LET i == CHOOSE k \in 1..Len(s) :
                      s[k] = sep /\ \A j \in 1..(k - 1) : s[j] # sep
         IN  <<SubSeq(s, 1, i - 1)>> \o split(SubSeq(s, i + 1, Len(s)), sep)
    ELSE <<s>>

\* list(map(int, version.split(".")))
ParseVersion(version) ==
    LET parts == split(version, ".")
    IN  [i \in 1..Len(parts) |-> int(parts[i])]

\* mutant of removeprefix: every leading occurrence removed, as lstrip does
RECURSIVE removeprefix_repeated(_, _)
removeprefix_repeated(s, prefix) ==
    IF prefix # <<>> /\ Len(s) >= Len(prefix) /\ SubSeq(s, 1, Len(prefix)) = prefix
    THEN removeprefix_repeated(SubSeq(s, Len(prefix) + 1, Len(s)), prefix)
    ELSE s

\* s.removeprefix(prefix)
removeprefix(s, prefix) ==
    IF Len(s) >= Len(prefix) /\ SubSeq(s, 1, Len(prefix)) = prefix
    THEN SubSeq(s, Len(prefix) + 1, Len(s))
    ELSE s

(***************************************************************************)
(* is_valid_semver: re.match(r"^\d+\.\d+\.\d+$", version)                  *)
(* A match position is an index into the string, 0 meaning "no match".     *)
(***************************************************************************)
RECURSIVE DigitRunEnd(_, _)
DigitRunEnd(s, i) ==
    IF i <= Len(s) /\ IsDigit(s[i]) THEN DigitRunEnd(s, i + 1) ELSE i

\* \d+ at position i: the run is taken whole, since what follows it in the
\* pattern (\. or $) never matches a digit
MatchDigits(s, i) ==
    IF i = 0 THEN 0
    ELSE LET j == DigitRunEnd(s, i) IN IF j > i THEN j ELSE 0

\* \. at position i
MatchDot(s, i) ==
    IF i # 0 /\ i <= Len(s) /\ s[i] = "." THEN i + 1 ELSE 0

\* $ at position i: the end of the string, or just before a newline that
\* ends the string
MatchEnd(s, i) ==
    /\ i # 0
    /\ \/ i = Len(s) + 1
       \/ i = Len(s) /\ s[i] = "\n"

is_valid_semver(version) ==
    MatchEnd(version,
        MatchDigits(version,
            MatchDot(version,
                MatchDigits(version,
                    MatchDot(version,
                        MatchDigits(version, 1))))))

(***************************************************************************)
(* validate_semver_bump                                                    *)
(***************************************************************************)
BumpType == [MAJOR |-> "major", MINOR |-> "minor", PATCH |-> "patch"]

semver_parts == <<"MAJOR", "MINOR", "PATCH">>

SemverMsg == "Invalid version - must follow SEMVER convention (major.minor.patch)!"

NotBumpedMsg == "Version was not bumped!"

\* The outcome of a call: a returned value, or an exception with its type,
\* its message and the line of this file that raised it.
Return(value, line) ==
    [tag |-> "return", value |-> value, exc |-> "", msg |-> "", line |-> line]

Raise(exc_type, message, line) ==
    [tag |-> "raise", value |-> "", exc |-> exc_type, msg |-> message,
     line |-> line]

\* raise_semver_exception(), called from the given line
raise_semver_exception(line) == Raise("ValueError", SemverMsg, line)

\* mutants of correct_bump: the subtraction turned round; any increase
\* accepted; a step of one in either direction accepted
correct_bump_reversed(prev, next, idx) == prev[idx] - 1 = next[idx]

correct_bump_any_increase(prev, next, idx) == next[idx] > prev[idx]

correct_bump_either_way(prev, next, idx) ==
    next[idx] - 1 = prev[idx] \/ next[idx] + 1 = prev[idx]

correct_bump(prev, next, idx) == next[idx] - 1 = prev[idx]

\* mutants of lower_levels_reset: the range starting one index late; the
\* check dropped
lower_levels_reset_late(next, idx) ==
    \A jdx \in (idx + 2)..Len(semver_parts) : next[jdx] = 0

lower_levels_reset_dropped(next, idx) == TRUE

lower_levels_reset(next, idx) ==
    \A jdx \in (idx + 1)..Len(semver_parts) : next[jdx] = 0

\* the for loop of lines 35-44, from index idx on; falling off its end
\* returns None
RECURSIVE CompareFrom(_, _, _)
CompareFrom(prev, next, idx) ==
    IF idx > Len(semver_parts) THEN Return("None", 45)
    ELSE IF next[idx] # prev[idx]
    THEN IF correct_bump(prev, next, idx) /\ lower_levels_reset(next, idx)
         THEN Return(semver_parts[idx], 42)
         ELSE raise_semver_exception(44)
    ELSE CompareFrom(prev, next, idx + 1)

\* mutant of validate_semver_bump: the equality check of line 26 left out
validate_semver_bump_no_equality(previous, next) ==
    IF ~(is_valid_semver(previous) /\ is_valid_semver(next))
    THEN raise_semver_exception(24)
    ELSE CompareFrom(ParseVersion(previous), ParseVersion(next), 1)

validate_semver_bump(previous, next) ==
    IF ~(is_valid_semver(previous) /\ is_valid_semver(next))
    THEN raise_semver_exception(24)
    ELSE IF previous = next
    THEN Raise("ValueError", NotBumpedMsg, 27)
    ELSE CompareFrom(ParseVersion(previous), ParseVersion(next), 1)

(***************************************************************************)
(* The arguments one invocation may be given                               *)
(***************************************************************************)
\* str(n) for a one-digit n
Str(n) == <<DigitChars[n + 1]>>

Dotted(a, b, c) == a \o <<".">> \o b \o <<".">> \o c

\* the renderings of the version t = <<major, minor, patch>> that are tried
Shapes ==
    {"plain", "pad_major", "pad_minor", "pad_patch", "v", "vv", "newline",
     "suffix", "inner_v"}

Render(t, shape) ==
    LET plain == Dotted(Str(t[1]), Str(t[2]), Str(t[3]))
    IN  CASE shape = "plain"     -> plain
          [] shape = "pad_major" -> Dotted(<<"0">> \o Str(t[1]), Str(t[2]), Str(t[3]))
          [] shape = "pad_minor" -> Dotted(Str(t[1]), <<"0">> \o Str(t[2]), Str(t[3]))
          [] shape = "pad_patch" -> Dotted(Str(t[1]), Str(t[2]), <<"0">> \o Str(t[3]))
          [] shape = "v"         -> <<"v">> \o plain
          [] shape = "vv"        -> <<"v", "v">> \o plain
          [] shape = "newline"   -> plain \o <<"\n">>
          [] shape = "suffix"    -> plain \o <<"-">>
          [] shape = "inner_v"   -> Dotted(Str(t[1]), <<"v">> \o Str(t[2]), Str(t[3]))

\* "1.2", "1.2.3.4", "v1.2.x", "abc" and the empty string
Malformed ==
    { <<"1", ".", "2">>,
      <<"1", ".", "2", ".", "3", ".", "4">>,
      <<"v", "1", ".", "2", ".", "x">>,
      <<"a", "b", "c">>,
      <<>> }

Tuples(max) == (0..max) \X (0..max) \X (0..max)

PreviousInputs ==
    { Render(t, shape) : t \in Tuples(MaxNum), shape \in Shapes } \cup Malformed

NextInputs ==
    { Render(t, shape) : t \in Tuples(MaxNum + 1), shape \in Shapes }
        \cup Malformed

\* sys.argv[1:]: both arguments, or the second or both missing
ArgvInputs ==
    { <<p, n>> : p \in PreviousInputs, n \in NextInputs }
        \cup { <<p>> : p \in PreviousInputs } \cup { <<>> }

\* what the file named by GITHUB_OUTPUT holds when the step starts: the
\* output of an earlier write
PriorOutput == << <<"prior=1", "\n">> >>

(***************************************************************************)
(* The script: lines 47-53                                                 *)
(***************************************************************************)
Unset == [tag |-> "unset", value |-> "", exc |-> "", msg |-> "", line |-> 0]

Exit0 == [tag |-> "exit", value |-> "0", exc |-> "", msg |-> "", line |-> 53]

Init ==
    /\ argv \in ArgvInputs
    /\ pc = "strip"
    /\ previous_version = <<>>
    /\ next_version = <<>>
    /\ bump_type = Unset
    /\ getenv = "unread"
    /\ github_output = PriorOutput
    /\ exit = Unset

\* lines 48-49: sys.argv[1].removeprefix("v"), sys.argv[2].removeprefix("v");
\* a missing argument is an IndexError
StripPrefixes ==
    /\ pc = "strip"
    /\ IF Len(argv) < 1
       THEN /\ exit' = Raise("IndexError", "list index out of range", 48)
            /\ pc' = "exited"
            /\ UNCHANGED <<previous_version, next_version>>
       ELSE IF Len(argv) < 2
       THEN /\ previous_version' = removeprefix(argv[1], <<"v">>)
            /\ exit' = Raise("IndexError", "list index out of range", 49)
            /\ pc' = "exited"
            /\ UNCHANGED next_version
       ELSE /\ previous_version' = removeprefix(argv[1], <<"v">>)
            /\ next_version' = removeprefix(argv[2], <<"v">>)
            /\ pc' = "validate"
            /\ UNCHANGED exit
    /\ UNCHANGED <<argv, bump_type, getenv, github_output>>

\* line 51: an exception of validate_semver_bump ends the process
Validate ==
    /\ pc = "validate"
    /\ LET outcome == validate_semver_bump(previous_version, next_version)
       IN  IF outcome.tag = "raise"
           THEN /\ exit' = outcome
                /\ pc' = "exited"
                /\ UNCHANGED bump_type
           ELSE /\ bump_type' = outcome
                /\ pc' = "write"
                /\ UNCHANGED exit
    /\ UNCHANGED <<argv, previous_version, next_version, getenv, github_output>>

\* mutant of OutputLine: the member's name written instead of its value
OutputLine_member_name(member) == <<"bump_type=", member, "\n">>

\* f"bump_type={bump_type.value}\n"
OutputLine(member) == <<"bump_type=", BumpType[member], "\n">>

\* lines 52-53: open(os.getenv("GITHUB_OUTPUT"), "a") and the write; the
\* variable may be unset, and bump_type may be None
WriteOutput ==
    /\ pc = "write"
    /\ \E path \in {"set", "None"} :
          /\ getenv' = path
          /\ IF path = "None"
             THEN /\ exit' = Raise("TypeError", "expected str, bytes or os.PathLike object, not NoneType", 52)
                  /\ UNCHANGED github_output
             ELSE IF bump_type.value = "None"
             THEN /\ exit' = Raise("AttributeError", "'NoneType' object has no attribute 'value'", 53)
                  /\ UNCHANGED github_output
             ELSE /\ github_output' = Append(github_output, OutputLine(bump_type.value))
                  /\ exit' = Exit0
    /\ pc' = "exited"
    /\ UNCHANGED <<argv, previous_version, next_version, bump_type>>

Next == StripPrefixes \/ Validate \/ WriteOutput

Spec == Init /\ [][Next]_vars

(***************************************************************************)
(* Vocabulary of the properties                                            *)
(***************************************************************************)
\* one or more digits, ".", one or more digits, ".", one or more digits,
\* and no other character
WellFormed(s) ==
    \E i, j \in 1..Len(s) :
        /\ 1 < i /\ i + 1 < j /\ j < Len(s)
        /\ s[i] = "." /\ s[j] = "."
        /\ \A k \in (1..Len(s)) \ {i, j} : IsDigit(s[k])

\* validate_semver_bump has been called on previous_version, next_version
Validated == Len(argv) = 2 /\ pc \in {"write", "exited"}

\* what that call returned or raised
Outcome == IF bump_type.tag = "return" THEN bump_type ELSE exit

Classified(o) == o.tag = "return" /\ o.value \in DOMAIN BumpType

InvalidFormat(o) ==
    o.tag = "raise" /\ o.exc = "ValueError" /\ o.msg = SemverMsg /\ o.line = 24

NoChange(o) ==
    o.tag = "raise" /\ o.exc = "ValueError" /\ o.msg = NotBumpedMsg /\ o.line = 27

InvalidBump(o) ==
    o.tag = "raise" /\ o.exc = "ValueError" /\ o.msg = SemverMsg /\ o.line = 44

\* two errors a caller can tell apart: by exception type or by message
Distinguishable(o1, o2) == o1.exc # o2.exc \/ o1.msg # o2.msg

BothWellFormed == WellFormed(previous_version) /\ WellFormed(next_version)

Differ(p, n) == \E i \in 1..3 : p[i] # n[i]

FirstDiff(p, n) ==
    CHOOSE i \in 1..3 : p[i] # n[i] /\ \A j \in 1..(i - 1) : p[j] = n[j]

LexLess(p, n) ==
    \E i \in 1..3 : p[i] < n[i] /\ \A j \in 1..(i - 1) : p[j] = n[j]

IndexOf(member) == CHOOSE i \in 1..3 : semver_parts[i] = member

(***************************************************************************)
(* Properties                                                              *)
(***************************************************************************)
\* C1: for well-formed versions with previous = (a,b,c), the call returns
\* MAJOR when next = (a+1,0,0), MINOR when next = (a,b+1,0) and PATCH when
\* next = (a,b,c+1).
C1_CanonicalBumps ==
    (Validated /\ BothWellFormed) =>
        LET p == ParseVersion(previous_version)
            n == ParseVersion(next_version)
        IN  /\ n = <<p[1] + 1, 0, 0>> => Outcome = Return("MAJOR", 42)
            /\ n = <<p[1], p[2] + 1, 0>> => Outcome = Return("MINOR", 42)
            /\ n = <<p[1], p[2], p[3] + 1>> => Outcome = Return("PATCH", 42)

C1_Witness ==
    /\ Validated /\ BothWellFormed
    /\ ParseVersion(previous_version) = <<1, 1, 1>>
    /\ ParseVersion(next_version) = <<1, 2, 0>>
    /\ Outcome = Return("MINOR", 42)

\* C2: well-formed versions whose strings differ but whose parsed tuples are
\* equal end in an error; the call never completes without one.
C2_EqualTuplesFail ==
    ( /\ Validated /\ BothWellFormed
      /\ previous_version # next_version
      /\ ParseVersion(previous_version) = ParseVersion(next_version) )
        => Outcome.tag = "raise"

\* C3: when either argument is not well-formed the call fails with
\* InvalidFormat, whatever the other argument is.
C3_MalformedRejected ==
    (Validated /\ ~BothWellFormed) => InvalidFormat(Outcome)

\* C4: for a well-formed v, validate(v, v) fails with NoChange, an error
\* distinct from InvalidFormat and InvalidBump, and classifies nothing.
C4_NoChange ==
    (Validated /\ BothWellFormed /\ previous_version = next_version) =>
        /\ NoChange(Outcome)
        /\ Distinguishable(Outcome, raise_semver_exception(24))
        /\ Distinguishable(Outcome, raise_semver_exception(44))
        /\ ~Classified(bump_type)

C4_Witness ==
    /\ Validated /\ BothWellFormed
    /\ previous_version = next_version
    /\ ParseVersion(previous_version) = <<1, 0, 1>>
    /\ NoChange(exit)

\* the first differing component of well-formed inputs is not previous + 1
BadStep ==
    /\ Validated /\ BothWellFormed
    /\ LET p == ParseVersion(previous_version)
           n == ParseVersion(next_version)
       IN  Differ(p, n) /\ n[FirstDiff(p, n)] # p[FirstDiff(p, n)] + 1

\* C5 as stated: when the first differing component of well-formed inputs is
\* not previous + 1, the call fails with InvalidBump, an error
\* distinguishable from InvalidFormat, and classifies no component.
C5_Original ==
    BadStep =>
        /\ InvalidBump(Outcome)
        /\ Distinguishable(Outcome, raise_semver_exception(24))
        /\ ~Classified(bump_type)

\* C5 amended: when the first differing component of well-formed inputs is
\* not previous + 1, the call fails at the bump check (line 44) with the
\* same ValueError type and message as a format failure, an error
\* distinguishable from NoChange, and classifies no component.
C5_BadStepRejected ==
    BadStep =>
        /\ InvalidBump(Outcome)
        /\ ~Distinguishable(Outcome, raise_semver_exception(24))
        /\ Distinguishable(Outcome, Raise("ValueError", NotBumpedMsg, 27))
        /\ ~Classified(bump_type)

\* a jump of two in the major component while minor and patch would have
\* made a valid-looking lower bump
C5_Witness ==
    /\ BadStep
    /\ ParseVersion(previous_version) = <<0, 1, 1>>
    /\ ParseVersion(next_version) = <<2, 0, 0>>
    /\ InvalidBump(exit)

C5_WitnessDecrease ==
    /\ BadStep
    /\ ParseVersion(previous_version) = <<1, 0, 0>>
    /\ ParseVersion(next_version) = <<0, 1, 0>>
    /\ InvalidBump(exit)

\* the first differing component is previous + 1 but a later one is not 0
NotReset ==
    /\ Validated /\ BothWellFormed
    /\ LET p == ParseVersion(previous_version)
           n == ParseVersion(next_version)
       IN  /\ Differ(p, n)
           /\ n[FirstDiff(p, n)] = p[FirstDiff(p, n)] + 1
           /\ \E j \in (FirstDiff(p, n) + 1)..3 : n[j] # 0

\* C6: when the first differing component is previous + 1 and a component
\* of next after it is non-zero, the call fails with InvalidBump and
\* classifies nothing.
C6_ResetRequired ==
    NotReset => InvalidBump(Outcome) /\ ~Classified(bump_type)

C6_Witness ==
    /\ NotReset
    /\ ParseVersion(previous_version) = <<0, 1, 0>>
    /\ ParseVersion(next_version) = <<1, 1, 0>>
    /\ InvalidBump(exit)

\* C7: given the output file, it is appended to exactly when validation
\* classified the bump: then the one line "bump_type=<kind>" of the returned
\* kind is appended and the process exits normally; on every failure
\* (an exception of the validator, a None result, a missing argument) the
\* process ends with an exception and the file is as it was.
C7_OutputIffSuccess ==
    /\ pc # "exited" => github_output = PriorOutput
    /\ (pc = "exited" /\ getenv # "None") =>
          IF Classified(bump_type)
          THEN /\ exit = Exit0
               /\ \E kind \in {"major", "minor", "patch"} :
                     /\ kind = BumpType[bump_type.value]
                     /\ github_output =
                            Append(PriorOutput, <<"bump_type=", kind, "\n">>)
          ELSE /\ exit.tag = "raise"
               /\ github_output = PriorOutput

C7_Witness ==
    /\ pc = "exited"
    /\ bump_type = Return("PATCH", 42)
    /\ exit = Exit0
    /\ github_output = Append(PriorOutput, <<"bump_type=", "patch", "\n">>)

C7_WitnessNone ==
    /\ pc = "exited"
    /\ bump_type = Return("None", 45)
    /\ exit.exc = "AttributeError"
    /\ github_output = PriorOutput

\* at most one "v", and only as the first character
StripV(s) == IF s # <<>> /\ s[1] = "v" THEN Tail(s) ELSE s

HasV(s) == \E k \in 1..Len(s) : s[k] = "v"

\* C8: the wrapper's outcome on (p, n) is the validator's on
\* (strip(p), strip(n)), strip removing one leading "v" and nothing else; a
\* "v" that remains fails with InvalidFormat.
C8_PrefixStripped ==
    Validated =>
        /\ Outcome = validate_semver_bump(StripV(argv[1]), StripV(argv[2]))
        /\ (HasV(StripV(argv[1])) \/ HasV(StripV(argv[2])))
               => InvalidFormat(Outcome)

C8_Witness ==
    /\ Validated
    /\ argv = << <<"v", "1", ".", "1", ".", "1">>,
                 <<"v", "1", ".", "2", ".", "0">> >>
    /\ Outcome = Return("MINOR", 42)

C8_WitnessDoubleV ==
    /\ Validated
    /\ argv[1] = <<"v", "v", "1", ".", "1", ".", "1">>
    /\ WellFormed(argv[2])
    /\ InvalidFormat(exit)

\* C9: a returned classification for index i means: the components before i
\* are equal, next[i] = previous[i] + 1, the components of next after i are
\* zero, and i is the first differing index.
C9_ClassificationSound ==
    (Validated /\ Classified(bump_type)) =>
        LET p == ParseVersion(previous_version)
            n == ParseVersion(next_version)
            i == IndexOf(bump_type.value)
        IN  /\ \A j \in 1..(i - 1) : n[j] = p[j]
            /\ n[i] = p[i] + 1
            /\ \A j \in (i + 1)..3 : n[j] = 0
            /\ Differ(p, n) /\ FirstDiff(p, n) = i

C9_Witness ==
    /\ Validated
    /\ bump_type = Return("MINOR", 42)
    /\ ParseVersion(previous_version) = <<1, 0, 1>>
    /\ ParseVersion(next_version) = <<1, 1, 0>>

\* C10: a returned classification means the parsed next version is
\* lexicographically greater than the parsed previous version.
C10_StrictlyGreater ==
    (Validated /\ Classified(bump_type)) =>
        LexLess(ParseVersion(previous_version), ParseVersion(next_version))

\* accepted with a leading zero in the previous version
C10_Witness ==
    /\ Validated
    /\ Classified(bump_type)
    /\ previous_version = <<"0", ".", "0", "1", ".", "1">>
    /\ ParseVersion(next_version) = <<1, 0, 0>>

====
